---- MODULE Spec2Model ----
(***************************************************************************)
(* Model of the parameter validation and binding engine of                 *)
(* sql_query_engine: SqlDynamicQuery::check_query_params,                  *)
(* SqlDynamicQuery::validate_param_type and SqlDynamicQuery::execute.      *)
(*                                                                         *)
(* A Rust String is a sequence of one-character strings, so that parsing   *)
(* and pattern matching are computed character by character.               *)
(* Option<T> is a sequence of length 0 (None) or 1 (Some).                 *)
(***************************************************************************)
EXTENDS Integers, Sequences, FiniteSets, TLC

None == <<>>
Some(x) == <<x>>
IsSome(o) == Len(o) = 1
Unwrap(o) == o[1]

(***************************************************************************)
(* Characters.                                                             *)
(***************************************************************************)
AsciiDigits == <<"0", "1", "2", "3", "4", "5", "6", "7", "8", "9">>

IsAsciiDigit(c) == \E i \in 1..10 : AsciiDigits[i] = c

DigitVal(c) == (CHOOSE i \in 1..10 : AsciiDigits[i] = c) - 1

\* A decimal digit outside ASCII (ARABIC-INDIC DIGIT THREE): the regex crate's
\* \d is Unicode-aware and matches it, the numeric parsers do not.
ArabicIndicThree == "U+0663"

IsRegexDigit(c) == IsAsciiDigit(c) \/ c = ArabicIndicThree

UpperLetters == <<"A", "B", "C", "D", "E", "F", "G", "H", "I", "J", "K", "L", "M",
                  "N", "O", "P", "Q", "R", "S", "T", "U", "V", "W", "X", "Y", "Z">>

LowerLetters == <<"a", "b", "c", "d", "e", "f", "g", "h", "i", "j", "k", "l", "m",
                  "n", "o", "p", "q", "r", "s", "t", "u", "v", "w", "x", "y", "z">>

LowerChar(c) ==
    IF \E i \in 1..26 : UpperLetters[i] = c
    THEN LowerLetters[CHOOSE i \in 1..26 : UpperLetters[i] = c]
    ELSE c

\* str::to_lowercase
to_lowercase(s) == [i \in 1..Len(s) |-> LowerChar(s[i])]

AllAsciiDigits(s) == \A i \in 1..Len(s) : IsAsciiDigit(s[i])

RECURSIVE DigitsToNat(_)
DigitsToNat(s) ==
    IF s = <<>> THEN 0
    ELSE DigitsToNat(SubSeq(s, 1, Len(s) - 1)) * 10 + DigitVal(s[Len(s)])

Tail2(s, from) == SubSeq(s, from, Len(s))

(***************************************************************************)
(* str::parse::<i32>: an optional sign, then one or more ASCII digits,     *)
(* accumulated with checked_mul and checked_add (checked_sub after a       *)
(* minus sign), so that a value outside the signed 32-bit range fails.     *)
(***************************************************************************)
I32_MAX == 2147483647
I32_MIN == -I32_MAX - 1

ParseErr == [ok |-> FALSE, val |-> 0]
ParseOk(v) == [ok |-> TRUE, val |-> v]

RECURSIVE AccumulatePositive(_, _)
AccumulatePositive(acc, digits) ==
    IF digits = <<>> THEN ParseOk(acc)
    ELSE LET d == DigitVal(digits[1])
         IN  IF acc > (I32_MAX - d) \div 10 THEN ParseErr
             ELSE AccumulatePositive(acc * 10 + d, Tail(digits))

RECURSIVE AccumulateNegative(_, _)
AccumulateNegative(acc, digits) ==
    IF digits = <<>> THEN ParseOk(acc)
    ELSE LET d == DigitVal(digits[1])
         IN  IF acc < (I32_MIN + d + 9) \div 10 THEN ParseErr
             ELSE AccumulateNegative(acc * 10 - d, Tail(digits))

\* A parse that keeps the nine low digits of a number too long to fit.
parse_i32_KeepLowDigits(s) ==
    IF s = <<>> THEN ParseErr
    ELSE LET signed == s[1] \in {"+", "-"}
             digits == IF signed THEN Tail2(s, 2) ELSE s
             low == IF Len(digits) > 9 THEN Tail2(digits, Len(digits) - 8) ELSE digits
         IN  IF digits = <<>> \/ ~AllAsciiDigits(digits) THEN ParseErr
             ELSE IF s[1] = "-" THEN AccumulateNegative(0, low)
             ELSE AccumulatePositive(0, low)

parse_i32(s) ==
    IF s = <<>> THEN ParseErr
    ELSE LET signed == s[1] \in {"+", "-"}
             digits == IF signed THEN Tail2(s, 2) ELSE s
         IN  IF digits = <<>> \/ ~AllAsciiDigits(digits) THEN ParseErr
             ELSE IF s[1] = "-" THEN AccumulateNegative(0, digits)
             ELSE AccumulatePositive(0, digits)

(***************************************************************************)
(* str::parse::<f64>: an optional sign, then either a decimal number       *)
(* (digits, optional fraction, at least one digit, optional exponent) or   *)
(* one of inf, infinity, nan in any case.  The value is kept as the        *)
(* significant digits of the mantissa and a decimal exponent.              *)
(***************************************************************************)
RECURSIVE LeadingDigits(_)
LeadingDigits(s) ==
    IF s = <<>> \/ ~IsAsciiDigit(s[1]) THEN 0 ELSE 1 + LeadingDigits(Tail(s))

RECURSIVE StripLeadingZeros(_)
StripLeadingZeros(s) ==
    IF s # <<>> /\ s[1] = "0" THEN StripLeadingZeros(Tail(s)) ELSE s

RECURSIVE TrailingZeros(_)
TrailingZeros(s) ==
    IF s # <<>> /\ s[Len(s)] = "0" THEN 1 + TrailingZeros(SubSeq(s, 1, Len(s) - 1)) ELSE 0

FloatErr == [ok |-> FALSE, val |-> <<"nan", FALSE, <<>>, 0>>]

FloatOk(kind, neg, mantissa, exp) ==
    LET m == StripLeadingZeros(mantissa)
        z == TrailingZeros(m)
    IN  [ok |-> TRUE,
         val |-> <<kind, neg, SubSeq(m, 1, Len(m) - z), IF m = <<>> THEN 0 ELSE exp + z>>]

parse_f64(s) ==
    IF s = <<>> THEN FloatErr
    ELSE LET neg  == s[1] = "-"
             r    == IF s[1] \in {"+", "-"} THEN Tail2(s, 2) ELSE s
             low  == to_lowercase(r)
             nInt == LeadingDigits(r)
             dot  == nInt < Len(r) /\ r[nInt + 1] = "."
             nFrac == IF dot THEN LeadingDigits(Tail2(r, nInt + 2)) ELSE 0
             p    == IF dot THEN nInt + 2 + nFrac ELSE nInt + 1
             mant == SubSeq(r, 1, nInt) \o
                     (IF dot THEN SubSeq(r, nInt + 2, nInt + 1 + nFrac) ELSE <<>>)
             e    == Tail2(r, p + 1)
             eNeg == e # <<>> /\ e[1] = "-"
             eDig == IF e # <<>> /\ e[1] \in {"+", "-"} THEN Tail2(e, 2) ELSE e
         IN  IF low \in {<<"i", "n", "f">>, <<"i", "n", "f", "i", "n", "i", "t", "y">>}
             THEN FloatOk("inf", neg, <<>>, 0)
             ELSE IF low = <<"n", "a", "n">> THEN FloatOk("nan", neg, <<>>, 0)
             ELSE IF nInt + nFrac = 0 THEN FloatErr
             ELSE IF p > Len(r) THEN FloatOk("finite", neg, mant, 0 - nFrac)
             ELSE IF r[p] \notin {"e", "E"} THEN FloatErr
             ELSE IF eDig = <<>> \/ ~AllAsciiDigits(eDig) THEN FloatErr
             \* an exponent of more than 6 digits is out of the range of f64
             \* whatever the mantissa: zero or infinite, and the parse succeeds
             ELSE IF Len(StripLeadingZeros(eDig)) > 6
             THEN FloatOk(IF eNeg \/ StripLeadingZeros(mant) = <<>> THEN "finite" ELSE "inf",
                          neg, <<>>, 0)
             ELSE FloatOk("finite", neg, mant,
                          (IF eNeg THEN 0 - DigitsToNat(eDig) ELSE DigitsToNat(eDig)) - nFrac)

(***************************************************************************)
(* The boolean spellings of validate_param_type and of execute.            *)
(***************************************************************************)
BoolTrueWords ==
    {<<"t", "r", "u", "e">>, <<"1">>, <<"y", "e", "s">>, <<"o", "n">>}

\* The words for false without off.
BoolFalseWords_WithoutOff == {<<"f", "a", "l", "s", "e">>, <<"0">>, <<"n", "o">>}

BoolFalseWords ==
    {<<"f", "a", "l", "s", "e">>, <<"0">>, <<"n", "o">>, <<"o", "f", "f">>}

(***************************************************************************)
(* The two regular expressions of validate_param_type.                     *)
(***************************************************************************)
\* ^\d{4}-\d{2}-\d{2}$
date_pattern(s) ==
    /\ Len(s) = 10
    /\ \A i \in {1, 2, 3, 4, 6, 7, 9, 10} : IsRegexDigit(s[i])
    /\ s[5] = "-" /\ s[8] = "-"

\* ^\d{4}-\d{2}-\d{2} \d{2}:\d{2}:\d{2}$
datetime_pattern(s) ==
    /\ Len(s) = 19
    /\ \A i \in {1, 2, 3, 4, 6, 7, 9, 10, 12, 13, 15, 16, 18, 19} : IsRegexDigit(s[i])
    /\ s[5] = "-" /\ s[8] = "-" /\ s[11] = " " /\ s[14] = ":" /\ s[17] = ":"

(***************************************************************************)
(* chrono's parse_from_str for the formats "%Y-%m-%d" and                  *)
(* "%Y-%m-%d %H:%M:%S": numeric items skip leading white space and take    *)
(* 1 to width ASCII digits (%Y takes any number of digits after an         *)
(* explicit sign), literals match exactly, a space in the format skips     *)
(* white space, and the fields must name a date and a time that exist      *)
(* (a second of 60 is accepted as a leap second).                          *)
(***************************************************************************)
RECURSIVE trim_start(_)
trim_start(s) == IF s # <<>> /\ s[1] = " " THEN trim_start(Tail(s)) ELSE s

ScanErr == [ok |-> FALSE, val |-> 0, rest |-> <<>>]

ScanNumber(s0, width) ==
    LET s == trim_start(s0)
        n == IF LeadingDigits(s) < width THEN LeadingDigits(s) ELSE width
    IN  IF n = 0 THEN ScanErr
        ELSE [ok |-> TRUE, val |-> DigitsToNat(SubSeq(s, 1, n)), rest |-> Tail2(s, n + 1)]

ScanYear(s0) ==
    LET s == trim_start(s0)
    IN  IF s # <<>> /\ s[1] \in {"+", "-"}
        THEN LET n == LeadingDigits(Tail(s))
                 v == DigitsToNat(SubSeq(s, 2, n + 1))
             IN  IF n = 0 \/ Len(StripLeadingZeros(SubSeq(s, 2, n + 1))) > 6 THEN ScanErr
                 ELSE [ok |-> TRUE, val |-> IF s[1] = "-" THEN 0 - v ELSE v,
                       rest |-> Tail2(s, n + 2)]
        ELSE ScanNumber(s, 4)

\* A numeric item that follows the literal c.
ScanAfter(prev, c, width) ==
    IF ~prev.ok \/ prev.rest = <<>> \/ prev.rest[1] # c THEN ScanErr
    ELSE ScanNumber(Tail(prev.rest), width)

\* A numeric item that follows a space of the format.
ScanAfterSpace(prev, width) ==
    IF ~prev.ok THEN ScanErr ELSE ScanNumber(prev.rest, width)

IsLeapYear(y) == (y % 4 = 0 /\ y % 100 # 0) \/ y % 400 = 0

DaysInMonth(y, m) ==
    IF m = 2 THEN (IF IsLeapYear(y) THEN 29 ELSE 28)
    ELSE IF m \in {4, 6, 9, 11} THEN 30 ELSE 31

from_ymd_opt(y, m, d) ==
    /\ y >= -262143 /\ y <= 262142
    /\ m >= 1 /\ m <= 12
    /\ d >= 1 /\ d <= DaysInMonth(y, m)

DateErr == [ok |-> FALSE, val |-> <<0, 0, 0>>]

NaiveDate_parse_from_str(s) ==
    LET y == ScanYear(s)
        m == ScanAfter(y, "-", 2)
        d == ScanAfter(m, "-", 2)
    IN  IF ~d.ok \/ d.rest # <<>> THEN DateErr
        ELSE IF ~from_ymd_opt(y.val, m.val, d.val) THEN DateErr
        ELSE [ok |-> TRUE, val |-> <<y.val, m.val, d.val>>]

DateTimeErr == [ok |-> FALSE, val |-> <<0, 0, 0, 0, 0, 0>>]

NaiveDateTime_parse_from_str(s) ==
    LET y  == ScanYear(s)
        m  == ScanAfter(y, "-", 2)
        d  == ScanAfter(m, "-", 2)
        hh == ScanAfterSpace(d, 2)
        mm == ScanAfter(hh, ":", 2)
        ss == ScanAfter(mm, ":", 2)
    IN  IF ~ss.ok \/ ss.rest # <<>> THEN DateTimeErr
        ELSE IF ~from_ymd_opt(y.val, m.val, d.val) THEN DateTimeErr
        ELSE IF hh.val > 23 \/ mm.val > 59 \/ ss.val > 60 THEN DateTimeErr
        ELSE [ok |-> TRUE, val |-> <<y.val, m.val, d.val, hh.val, mm.val, ss.val>>]


(***************************************************************************)
(* SqlQueryParamType and the mapping of a type tag to it.  A tag outside   *)
(* the vocabulary makes the conversion panic.                              *)
(***************************************************************************)
SqlQueryParamType == {"String", "I32", "F64", "Bool", "NaiveDate", "NaiveDateTime"}

\* A conversion that takes every other tag for a string.
SqlQueryParamType_from_DefaultString(value) ==
    IF value \in {"BIGINT", "INTEGER", "Integer"} THEN "I32"
    ELSE IF value \in {"DOUBLE PRECISION", "DOUBLE_PRECISION"} THEN "F64"
    ELSE IF value \in {"BOOLEAN", "Boolean"} THEN "Bool"
    ELSE IF value \in {"DATE", "Date"} THEN "NaiveDate"
    ELSE IF value \in {"DATETIME", "DateTime"} THEN "NaiveDateTime"
    ELSE "String"

\* "panic" stands for the panic of the last arm.
SqlQueryParamType_from(value) ==
    IF value \in {"VARCHAR", "Varchar"} THEN "String"
    ELSE IF value \in {"BIGINT", "INTEGER", "Integer"} THEN "I32"
    ELSE IF value \in {"DOUBLE PRECISION", "DOUBLE_PRECISION"} THEN "F64"
    ELSE IF value \in {"BOOLEAN", "Boolean"} THEN "Bool"
    ELSE IF value \in {"DATE", "Date"} THEN "NaiveDate"
    ELSE IF value \in {"DATETIME", "DateTime"} THEN "NaiveDateTime"
    ELSE "panic"

(***************************************************************************)
(* Results.  An error carries its variant, the fixed part of its message   *)
(* and the parameter name, query key and detail formatted into it.         *)
(***************************************************************************)
Res(kind, msg, param, item_key, detail) ==
    [kind |-> kind, msg |-> msg, param |-> param, item_key |-> item_key,
     detail |-> detail]

OkUnit == Res("Ok", "", "", "", <<>>)

Panic(tag) == Res("Panic", "Unknown SQL query parameter type", "", "", <<tag>>)

ErrorCheckParams(msg, param, item_key, detail) ==
    Res("ErrorCheckParams", msg, param, item_key, detail)

ErrorExecutionQuery(msg, param, item_key, detail) ==
    Res("ErrorExecutionQuery", msg, param, item_key, detail)

(***************************************************************************)
(* validate_param_type: Ok, Err(message) or a panic on an unknown tag.     *)
(***************************************************************************)
TypeOk == [kind |-> "Ok", err |-> <<>>]
TypeErr(text, value) == [kind |-> "Err", err |-> <<text>> \o value]
TypePanic == [kind |-> "Panic", err |-> <<>>]

validate_param_type(expected_type, value) ==
    LET param_type == SqlQueryParamType_from(expected_type)
    IN  CASE param_type = "panic" -> TypePanic
          [] param_type = "String" -> TypeOk
          [] param_type = "I32" ->
                IF parse_i32(value).ok THEN TypeOk
                ELSE TypeErr("is not a valid integer", value)
          [] param_type = "F64" ->
                IF parse_f64(value).ok THEN TypeOk
                ELSE TypeErr("is not a valid float", value)
          [] param_type = "Bool" ->
                IF to_lowercase(value) \in BoolTrueWords \cup BoolFalseWords THEN TypeOk
                ELSE TypeErr("is not a valid boolean", value)
          [] param_type = "NaiveDateTime" ->
                IF value = <<>> THEN TypeErr("DateTime cannot be empty", <<>>)
                ELSE IF datetime_pattern(value) THEN TypeOk
                ELSE TypeErr("is not a valid datetime format", value)
          [] param_type = "NaiveDate" ->
                IF value = <<>> THEN TypeErr("Date cannot be empty", <<>>)
                ELSE IF date_pattern(value) THEN TypeOk
                ELSE TypeErr("is not a valid date format", value)

(***************************************************************************)
(* SqlDynamicQueryData: params is a map from names to values, a function   *)
(* on the set of supplied names.                                           *)
(***************************************************************************)
\* HashMap::get by way of SqlDynamicQueryData::get_param
get_param(data, key) == IF key \in DOMAIN data THEN Some(data[key]) ELSE None

(***************************************************************************)
(* check_query_params.  keys is the order in which the HashMap of the      *)
(* supplied parameters is iterated.                                        *)
(***************************************************************************)
\* A required-ness test that lets a configured default stand for the value.
IsRequired_UnlessDefault(query_param) ==
    query_param.is_required = 1 /\ ~IsSome(query_param.default_value)

\* A reading under which no parameter is required.
IsRequired_Never(query_param) == FALSE

IsRequired(query_param) == query_param.is_required = 1

\* The first loop: the first required parameter, in list order, that is
\* not supplied; 0 when there is none.
FirstMissingRequired(query_params, data) ==
    LET missing == {i \in 1..Len(query_params) :
                       /\ IsRequired(query_params[i])
                       /\ query_params[i].param_name \notin DOMAIN data}
    IN  IF missing = {} THEN 0
        ELSE CHOOSE i \in missing : \A j \in missing : i <= j

\* Iterator::find on the declared parameters: the position of the first one
\* named param_name; 0 when there is none.
FindParam(query_params, param_name) ==
    LET found == {i \in 1..Len(query_params) : query_params[i].param_name = param_name}
    IN  IF found = {} THEN 0
        ELSE CHOOSE i \in found : \A j \in found : i <= j

\* A turn of the second loop that passes over a supplied name that is not
\* declared.
CheckSuppliedEntry_SkipUnknown(query_params, item_key, param_name, param_value) ==
    LET i == FindParam(query_params, param_name)
        v == validate_param_type(query_params[i].param_type, param_value)
    IN  IF i = 0 THEN OkUnit
        ELSE IF v.kind = "Panic" THEN Panic(query_params[i].param_type)
        ELSE IF v.kind = "Err"
        THEN ErrorCheckParams("validation failed", param_name, item_key, v.err)
        ELSE OkUnit

\* A turn of the second loop that checks the type of required parameters
\* only.
CheckSuppliedEntry_SkipOptional(query_params, item_key, param_name, param_value) ==
    LET i == FindParam(query_params, param_name)
        v == validate_param_type(query_params[i].param_type, param_value)
    IN  IF i = 0
        THEN ErrorCheckParams("Unexpected parameter", param_name, item_key, <<>>)
        ELSE IF ~IsRequired(query_params[i]) THEN OkUnit
        ELSE IF v.kind = "Panic" THEN Panic(query_params[i].param_type)
        ELSE IF v.kind = "Err"
        THEN ErrorCheckParams("validation failed", param_name, item_key, v.err)
        ELSE OkUnit

\* One turn of the second loop, for the supplied entry param_name.
CheckSuppliedEntry(query_params, item_key, param_name, param_value) ==
    LET i == FindParam(query_params, param_name)
        v == validate_param_type(query_params[i].param_type, param_value)
    IN  IF i = 0
        THEN ErrorCheckParams("Unexpected parameter", param_name, item_key, <<>>)
        ELSE IF v.kind = "Panic" THEN Panic(query_params[i].param_type)
        ELSE IF v.kind = "Err"
        THEN ErrorCheckParams("validation failed", param_name, item_key, v.err)
        ELSE OkUnit

\* The second loop, over the supplied entries in the order keys.
RECURSIVE CheckSupplied(_, _, _, _)
CheckSupplied(query_params, item_key, data, keys) ==
    IF keys = <<>> THEN OkUnit
    ELSE LET r == CheckSuppliedEntry(query_params, item_key, keys[1], data[keys[1]])
         IN  IF r.kind # "Ok" THEN r
             ELSE CheckSupplied(query_params, item_key, data, Tail(keys))

\* A None branch that accepts whatever is supplied.
CheckNoParams_AcceptAll(item_key, data) == OkUnit

\* The branch taken when self.params is None.
CheckNoParams(item_key, data) ==
    IF DOMAIN data # {}
    THEN ErrorCheckParams("expects no parameters", "", item_key,
                          <<ToString(Cardinality(DOMAIN data))>>)
    ELSE OkUnit

\* The entries the second loop visits when the map is iterated in the
\* order keys: those up to the first one it returns at, none when the
\* function returns before the loop.
RECURSIVE VisitedBySupplied(_, _, _, _)
VisitedBySupplied(query_params, item_key, data, keys) ==
    IF keys = <<>> THEN <<>>
    ELSE IF CheckSuppliedEntry(query_params, item_key, keys[1], data[keys[1]]).kind # "Ok"
    THEN <<keys[1]>>
    ELSE <<keys[1]>> \o VisitedBySupplied(query_params, item_key, data, Tail(keys))

Visited(self, data, keys) ==
    IF ~IsSome(self.params) \/ FirstMissingRequired(Unwrap(self.params), data) # 0
    THEN <<>>
    ELSE VisitedBySupplied(Unwrap(self.params), self.item_key, data, keys)

\* A check that runs the loop over the supplied entries before the loop
\* over the required parameters.
check_query_params_SuppliedFirst(self, data, keys) ==
    IF ~IsSome(self.params) THEN CheckNoParams(self.item_key, data)
    ELSE LET query_params == Unwrap(self.params)
             m == FirstMissingRequired(query_params, data)
             supplied == CheckSupplied(query_params, self.item_key, data, keys)
         IN  IF supplied.kind # "Ok" THEN supplied
             ELSE IF m # 0
             THEN ErrorCheckParams("Required parameter is missing",
                                   query_params[m].param_name, self.item_key, <<>>)
             ELSE OkUnit

check_query_params(self, data, keys) ==
    IF ~IsSome(self.params) THEN CheckNoParams(self.item_key, data)
    ELSE LET query_params == Unwrap(self.params)
             m == FirstMissingRequired(query_params, data)
         IN  IF m # 0
             THEN ErrorCheckParams("Required parameter is missing",
                                   query_params[m].param_name, self.item_key, <<>>)
             ELSE CheckSupplied(query_params, self.item_key, data, keys)


(***************************************************************************)
(* execute, second stage: the value of one declared parameter is resolved, *)
(* converted to the native type of its tag and bound.                      *)
(***************************************************************************)
\* A resolution that lets a configured default take precedence over the
\* supplied value.
ResolveValue_DefaultFirst(param, data) ==
    IF IsSome(param.default_value)
    THEN param.default_value
    ELSE get_param(data, param.param_name)

\* The supplied value, else the default value, else None.
ResolveValue(param, data) ==
    IF IsSome(get_param(data, param.param_name))
    THEN get_param(data, param.param_name)
    ELSE param.default_value

ConvErr(text) == [ok |-> FALSE, val |-> <<>>, err |-> text]
ConvOk(val) == [ok |-> TRUE, val |-> val, err |-> ""]

\* The match on param_type: the native value handed to query.bind, or the
\* text of the error returned.
ConvertValue(param_type, value) ==
    CASE param_type = "String" -> ConvOk(<<"String", value>>)
      [] param_type = "I32" ->
            IF parse_i32(value).ok THEN ConvOk(<<"I32", parse_i32(value).val>>)
            ELSE ConvErr("Invalid integer value")
      [] param_type = "F64" ->
            IF parse_f64(value).ok THEN ConvOk(<<"F64">> \o parse_f64(value).val)
            ELSE ConvErr("Invalid float value")
      [] param_type = "Bool" ->
            IF to_lowercase(value) \in BoolTrueWords THEN ConvOk(<<"Bool", TRUE>>)
            ELSE IF to_lowercase(value) \in BoolFalseWords THEN ConvOk(<<"Bool", FALSE>>)
            ELSE ConvErr("Invalid boolean value")
      [] param_type = "NaiveDate" ->
            IF NaiveDate_parse_from_str(value).ok
            THEN ConvOk(<<"NaiveDate">> \o NaiveDate_parse_from_str(value).val)
            ELSE ConvErr("Invalid datetime format, expected YYYY-MM-DD")
      [] param_type = "NaiveDateTime" ->
            IF NaiveDateTime_parse_from_str(value).ok
            THEN ConvOk(<<"NaiveDateTime">> \o NaiveDateTime_parse_from_str(value).val)
            ELSE ConvErr("Invalid datetime format, expected YYYY-MM-DD HH:MM:SS")

Binding(param, raw, val) == [param_name |-> param.param_name, raw |-> raw, val |-> val]

\* A turn of the loop that trusts a default value: one that does not
\* convert is bound as the string it is.
BindParam_TrustDefault(param, data) ==
    LET value == ResolveValue(param, data)
        param_type == SqlQueryParamType_from(param.param_type)
        conv == ConvertValue(param_type, Unwrap(value))
    IN  IF ~IsSome(value)
        THEN [res |-> ErrorExecutionQuery("is missing and has no default value",
                                          param.param_name, "", <<>>),
              entry |-> Binding(param, <<>>, <<>>)]
        ELSE IF param_type = "panic"
        THEN [res |-> Panic(param.param_type), entry |-> Binding(param, <<>>, <<>>)]
        ELSE IF ~conv.ok /\ param.param_name \notin DOMAIN data
        THEN [res |-> OkUnit,
              entry |-> Binding(param, Unwrap(value), <<"String", Unwrap(value)>>)]
        ELSE IF ~conv.ok
        THEN [res |-> ErrorExecutionQuery(conv.err, param.param_name, "", Unwrap(value)),
              entry |-> Binding(param, <<>>, <<>>)]
        ELSE [res |-> OkUnit, entry |-> Binding(param, Unwrap(value), conv.val)]

\* One turn of the loop over the declared parameters: res is Ok and entry
\* the value bound, or res is the error returned (or the panic).
BindParam(param, data) ==
    LET value == ResolveValue(param, data)
        param_type == SqlQueryParamType_from(param.param_type)
        conv == ConvertValue(param_type, Unwrap(value))
    IN  IF ~IsSome(value)
        THEN [res |-> ErrorExecutionQuery("is missing and has no default value",
                                          param.param_name, "", <<>>),
              entry |-> Binding(param, <<>>, <<>>)]
        ELSE IF param_type = "panic"
        THEN [res |-> Panic(param.param_type), entry |-> Binding(param, <<>>, <<>>)]
        ELSE IF ~conv.ok
        THEN [res |-> ErrorExecutionQuery(conv.err, param.param_name, "", Unwrap(value)),
              entry |-> Binding(param, <<>>, <<>>)]
        ELSE [res |-> OkUnit, entry |-> Binding(param, Unwrap(value), conv.val)]

\* The parameter the loop of execute takes at its k-th turn.
ParamAt(params, k) == params[k]

\* A propagation that wraps the error of check_query_params as an
\* execution error.
PropagateCheckError_Wrapped(r) ==
    IF r.kind = "ErrorCheckParams"
    THEN ErrorExecutionQuery(r.msg, r.param, r.item_key, r.detail)
    ELSE r

\* What execute returns when check_query_params returned the error r.
PropagateCheckError(r) == r

\* What execute returns for the outcome of fetch_all.
FetchResult(item_key, response) ==
    IF response.ok THEN Res("Ok", "", "", "", response.rows)
    ELSE ErrorExecutionQuery("Error executing query", "", item_key, <<response.error>>)

\* An execute that calls fetch_all again after a failure.
AfterFetch_RetryOnError(r) == IF r.ok THEN "done" ELSE "bind"

\* Where execute goes after fetch_all returned.
AfterFetch(r) == "done"

(***************************************************************************)
(* SqlQueryManager: the lookups in the two tables of the store.  A store   *)
(* is a record of queries, the sequence of the rows of the query table,    *)
(* and params, the sequence of the rows of the parameter table.  A         *)
(* Result<Option<T>, SqlQueryEngineError> is a record.                     *)
(***************************************************************************)
LookupOk(val) == [kind |-> "Ok", val |-> val, err |-> "", item_key |-> ""]

LookupErr(err, item_key) ==
    [kind |-> "Err", val |-> None, err |-> err, item_key |-> item_key]

\* fetch_optional of SELECT * FROM table_query WHERE item_key = $1.
fetch_optional(store, item_key) ==
    LET found == SelectSeq(store.queries, LAMBDA q : q.item_key = item_key)
    IN  IF found = <<>> THEN None ELSE Some(found[1])

\* A lookup that answers Ok(None) when no row has the key.
QueryIsNone_AsNone(item_key) == LookupOk(None)

\* What get_sql_query_by_item_key returns when query.is_none().
QueryIsNone(item_key) == LookupErr("ErrorNoQueryFound", item_key)

\* db_ok: the fetch was answered by the database.
get_sql_query_by_item_key(store, item_key, db_ok) ==
    IF db_ok
    THEN LET query == fetch_optional(store, item_key)
         IN  IF ~IsSome(query) THEN QueryIsNone(item_key) ELSE LookupOk(query)
    ELSE LookupErr("ErrorGetSqlQuery", item_key)

\* The rows of the parameter table joined to a query row with the key, in
\* the order of the parameter table.
JoinedRows(store, item_key) ==
    IF IsSome(fetch_optional(store, item_key))
    THEN SelectSeq(store.params, LAMBDA qp : qp.item_key = item_key)
    ELSE <<>>

\* A comparison that lets a later row pass the rows of equal param_order.
KeyNotAfter_Strict(p, q) == p.param_order < q.param_order

\* The row p stays before the row q that sort_by_key places after it.
KeyNotAfter(p, q) == p.param_order <= q.param_order

RECURSIVE InsertByKey(_, _)
InsertByKey(sorted, q) ==
    IF sorted = <<>> THEN <<q>>
    ELSE IF KeyNotAfter(sorted[1], q)
    THEN <<sorted[1]>> \o InsertByKey(Tail(sorted), q)
    ELSE <<q>> \o sorted

\* params.sort_by_key(|p| p.param_order): a stable sort.
RECURSIVE sort_by_key(_)
sort_by_key(params) ==
    IF params = <<>> THEN <<>>
    ELSE InsertByKey(sort_by_key(SubSeq(params, 1, Len(params) - 1)),
                     params[Len(params)])

\* A lookup that answers Some of the empty list.
ParamsIsEmpty_AsEmptyList == LookupOk(Some(<<>>))

\* What get_sql_query_params_by_item_key returns when params.is_empty().
ParamsIsEmpty == LookupOk(None)

\* rows: what fetch_all returned, when the database answered.
get_sql_query_params_by_item_key(item_key, rows, db_ok) ==
    IF db_ok
    THEN IF rows = <<>> THEN ParamsIsEmpty ELSE LookupOk(Some(sort_by_key(rows)))
    ELSE LookupErr("ErrorGetSqlQueryParam", item_key)

get_sql_dynamic_query(store, item_key, query_ok, rows, params_ok) ==
    LET found == get_sql_query_by_item_key(store, item_key, query_ok)
    IN  IF found.kind = "Err" THEN found
        ELSE IF ~IsSome(found.val) THEN LookupOk(None)
        ELSE LET params == get_sql_query_params_by_item_key(item_key, rows, params_ok)
             IN  IF params.kind = "Err" THEN params
                 ELSE LookupOk(Some([item_key |-> Unwrap(found.val).item_key,
                                     params |-> params.val]))

(***************************************************************************)
(* The inputs: the declared parameters of a query and the parameters a     *)
(* caller supplies.                                                        *)
(***************************************************************************)
Str_7 == <<"7">>
Str_date == <<"2", "0", "0", "0", "-", "0", "1", "-", "0", "1">>
Str_nodate == <<"2", "0", "5", "5", "-", "0", "2", "-", "3", "0">>

Values == {Str_7, Str_date, Str_nodate}

\* TEXT is a tag outside the vocabulary of SqlQueryParamType.
Tags == {"INTEGER", "DATE", "TEXT"}

ParamNames == {"id", "item_date_end"}

SuppliedKeys == ParamNames \cup {"item_date_ende"}

ParamOrders == {1, 2}

ItemKeys == {"test.activite_pro"}

\* The defaults a row of the parameter table may carry: each is a well-formed
\* value of one type and an ill-formed value of the other.
DefaultValues == {Str_7, Str_date}

MaxSupplied == 2

SqlQueryParam(name) ==
    [param_name : {name}, param_type : Tags, param_order : ParamOrders,
     is_required : {0, 1},
     default_value : {None} \cup {Some(v) : v \in DefaultValues}]

ParamLists ==
    {<<>>}
    \cup {<<p>> : p \in UNION {SqlQueryParam(n) : n \in ParamNames}}
    \cup {<<p, q>> : p \in SqlQueryParam("id"), q \in SqlQueryParam("item_date_end")}

SqlDynamicQuery ==
    [item_key : ItemKeys, params : {None} \cup {Some(l) : l \in ParamLists}]

SqlDynamicQueryData ==
    UNION {[S -> Values] : S \in {T \in SUBSET SuppliedKeys : Cardinality(T) <= MaxSupplied}}

\* The orders in which a HashMap holding the keys S may be iterated.
IterationOrders(S) ==
    {o \in [1..Cardinality(S) -> S] : \A i, j \in 1..Cardinality(S) : o[i] = o[j] => i = j}

DbRows == {<<>>, <<"row1">>, <<"row1", "row2">>}
DbErrors == {"connection refused"}

FetchResponses ==
    {[ok |-> TRUE, rows |-> r, error |-> ""] : r \in DbRows}
    \cup {[ok |-> FALSE, rows |-> <<>>, error |-> e] : e \in DbErrors}

(***************************************************************************)
(* The stores a SqlQueryManager reads: a query table whose rows have       *)
(* distinct keys, and a parameter table of at most MaxRows rows.           *)
(***************************************************************************)
StoreKeys == ItemKeys \cup {"select.atelier"}

MaxRows == 2

StoredOrders == {1, 2, 3}

StoredParams ==
    [param_name : ParamNames, param_type : {"INTEGER"}, param_order : StoredOrders,
     is_required : {1}, default_value : {None}]

QueryTables ==
    {<<>>} \cup {<<[item_key |-> k]>> : k \in StoreKeys}
    \cup {<<[item_key |-> "select.atelier"], [item_key |-> "test.activite_pro"]>>}

ParamTables ==
    UNION {[1..n -> [item_key : StoreKeys, param : StoredParams]] : n \in 0..MaxRows}

Stores == [queries : QueryTables, params : ParamTables]

ManagerData == {[n \in S |-> Str_7] : S \in {{"id"}, ParamNames}}

\* The answers of fetch_all to the join: the SELECT has no ORDER BY, so the
\* joined rows come in any order.
FetchedRows(store, item_key) ==
    LET joined == JoinedRows(store, item_key)
    IN  {[i \in 1..Len(joined) |-> joined[o[i]].param] :
            o \in IterationOrders(1..Len(joined))}

(***************************************************************************)
(* The inputs of the conversions: one required parameter of every type    *)
(* tag, supplied with one value of a lexicon of well-formed and           *)
(* ill-formed spellings of every type.                                     *)
(***************************************************************************)
IntegerWords ==
    {<<"0">>,
     <<"7">>,
     <<"1", "0", "2", "1">>,
     <<"-", "5">>,
     <<"+", "3">>,
     <<"0", "0", "7">>,
     <<"2", "1", "4", "7", "4", "8", "3", "6", "4", "7">>,
     <<"2", "1", "4", "7", "4", "8", "3", "6", "4", "8">>,
     <<"-", "2", "1", "4", "7", "4", "8", "3", "6", "4", "8">>,
     <<"-", "2", "1", "4", "7", "4", "8", "3", "6", "4", "9">>,
     <<"9", "9", "9", "9", "9", "9", "9", "9", "9", "9", "9">>,
     <<"1", "2", "a">>,
     <<>>,
     <<" ", "7">>,
     <<"7", " ">>,
     <<"-">>,
     <<"+">>,
     <<"1", ArabicIndicThree>>}

FloatWords ==
    {<<"1", ".", "5">>,
     <<".", "5">>,
     <<"5", ".">>,
     <<"1", "e", "5">>,
     <<"1", "E", "-", "2">>,
     <<"1", "e", "+", "3">>,
     <<"1", "e">>,
     <<"e", "5">>,
     <<".">>,
     <<"-", ".">>,
     <<"i", "n", "f">>,
     <<"-", "I", "n", "f", "i", "n", "i", "t", "y">>,
     <<"N", "a", "N">>,
     <<"n", "a", "n", "o">>,
     <<"1", ".", "0">>,
     <<"1", ",", "5">>,
     <<"0", ".", "0", "0", "0">>,
     <<"1", "e", "9", "9", "9", "9", "9", "9", "9">>,
     <<"1", ".", "5", ".", "2">>}

BoolWords ==
    {<<"t", "r", "u", "e">>,
     <<"T", "R", "U", "E">>,
     <<"T", "r", "u", "e">>,
     <<"f", "a", "l", "s", "e">>,
     <<"F", "A", "L", "S", "E">>,
     <<"o", "n">>,
     <<"O", "n">>,
     <<"o", "f", "f">>,
     <<"O", "f", "f">>,
     <<"y", "e", "s">>,
     <<"n", "o">>,
     <<"Y", "E", "S">>,
     <<"1">>,
     <<"0">>,
     <<"m", "a", "y", "b", "e">>,
     <<"y">>,
     <<"n">>,
     <<"o", "u", "i">>,
     <<"t">>,
     <<" ", "t", "r", "u", "e">>}

StringWords ==
    {<<"D", "u", "p", "o", "n", "t">>}

Years ==
    {<<"2", "0", "0", "0">>,
     <<"2", "0", "2", "3">>,
     <<"2", "0", "2", "4">>,
     <<"1", "9", "0", "0">>}

Months ==
    {<<"0", "0">>,
     <<"0", "1">>,
     <<"0", "2">>,
     <<"0", "4">>,
     <<"1", "2">>,
     <<"1", "3">>}

Days ==
    {<<"0", "0">>,
     <<"0", "1">>,
     <<"2", "8">>,
     <<"2", "9">>,
     <<"3", "0">>,
     <<"3", "1">>,
     <<"3", "2">>}

Times ==
    {<<"0", "0", ":", "0", "0", ":", "0", "0">>,
     <<"1", "0", ":", "3", "0", ":", "0", "0">>,
     <<"2", "3", ":", "5", "9", ":", "5", "9">>,
     <<"2", "3", ":", "5", "9", ":", "6", "0">>,
     <<"2", "3", ":", "5", "9", ":", "6", "1">>,
     <<"2", "4", ":", "0", "0", ":", "0", "0">>,
     <<"1", "2", ":", "6", "0", ":", "0", "0">>,
     <<"1", "2", ":", "0", "0", ":", "9", "9">>}

DateWords ==
    {y \o <<"-">> \o m \o <<"-">> \o d : y \in Years, m \in Months, d \in Days}

OddDateWords ==
    {<<"0", "0", "0", "0", "-", "0", "1", "-", "0", "1">>,
     <<"2", "0", "2", "3", "-", "1", "-", "5">>,
     <<"2", "0", "0", "0", "/", "0", "1", "/", "0", "1">>,
     <<"2", "0", "0", "0", "-", "0", "1", "-", "0", "1", " ">>,
     <<"2", "0", ArabicIndicThree, "0", "-", "0", "1", "-", "0", "1">>,
     <<"2", "0", "0", "0", "-", "0", "1", "-", "0", ArabicIndicThree>>,
     <<"+", "2", "0", "0", "0", "-", "0", "1", "-", "0", "1">>,
     <<"0", "2", "0", "0", "0", "-", "0", "1", "-", "0", "1">>,
     <<"2", "0", "0", "0", "-", "0", "1">>,
     <<"2", "0", "0", "0", "0", "1", "0", "1">>}

DateTimeWords ==
    {d \o <<" ">> \o t : d \in {y \o <<"-", "0", "2", "-", "2", "9">> : y \in Years}, t \in Times}

OddDateTimeWords ==
    {<<"2", "0", "0", "0", "-", "0", "1", "-", "0", "1", "T", "1", "0", ":", "3", "0", ":", "0", "0">>,
     <<"2", "0", "0", "0", "-", "0", "1", "-", "0", "1", " ", " ", "1", "0", ":", "3", "0", ":", "0", "0">>,
     <<"2", "0", "0", "0", "-", "0", "1", "-", "0", "1", "1", "0", ":", "3", "0", ":", "0", "0">>,
     <<"2", "0", "0", "0", "-", "0", "1", "-", "0", "1", " ", "1", "0", ":", "3", "0">>,
     <<"2", "0", "0", "0", "-", "0", "1", "-", "0", "1", " ", "1", "0", ":", "3", "0", ":", "0", "0", "Z">>,
     <<"2", "0", "0", "0", "-", "0", "1", "-", "0", "1", " ", "1", ArabicIndicThree, ":", "3", "0", ":", "0", "0">>,
     <<"2", "0", "0", "0", "-", "1", "3", "-", "0", "1", " ", "1", "0", ":", "3", "0", ":", "0", "0">>,
     <<"2", "0", "0", "0", "-", "1", "-", "1", " ", "1", ":", "2", ":", "3">>}

ConvValues ==
    IntegerWords \cup FloatWords \cup BoolWords \cup StringWords \cup DateWords
    \cup OddDateWords \cup DateTimeWords \cup OddDateTimeWords

AllTags ==
    {"VARCHAR", "Varchar", "BIGINT", "INTEGER", "Integer", "DOUBLE PRECISION",
     "DOUBLE_PRECISION", "BOOLEAN", "Boolean", "DATE", "Date", "DATETIME", "DateTime",
     "TEXT"}

ConvQueries ==
    {[item_key |-> k,
      params |-> Some(<<[param_name |-> "id", param_type |-> t, param_order |-> 1,
                         is_required |-> 1, default_value |-> None]>>)] :
        k \in ItemKeys, t \in AllTags}

ConvData == {[n \in {"id"} |-> v] : v \in ConvValues}

\* The same parameter made optional, with a value of the lexicon as default.
ConvDefaultQueries ==
    {[item_key |-> k,
      params |-> Some(<<[param_name |-> "id", param_type |-> t, param_order |-> 1,
                         is_required |-> 0, default_value |-> Some(v)]>>)] :
        k \in ItemKeys, t \in AllTags, v \in ConvValues}

\* The call that supplies nothing.
NoData == [n \in {} |-> <<>>]

(***************************************************************************)
(* The state of one call.                                                  *)
(***************************************************************************)
VARIABLES
    self,         \* the SqlDynamicQuery
    data,         \* the supplied parameters (SqlDynamicQueryData.params)
    keys,         \* the supplied names check_query_params visited, in order
    pc,           \* "idle", "checked", "bind", "done"
    bound,        \* the values bound so far, in binding order
    fetch_calls,  \* the number of calls of fetch_all
    response,     \* what fetch_all returned last
    result,       \* what the call returned
    store,        \* the two tables a SqlQueryManager reads
    lookup        \* the last call of a SqlQueryManager and what it returned

vars == <<self, data, keys, pc, bound, fetch_calls, response, result, store, lookup>>

NoResult == Res("None", "", "", "", <<>>)

NoResponse == [ok |-> FALSE, rows |-> <<>>, error |-> ""]

NoStore == [queries |-> <<>>, params |-> <<>>]

NoLookup ==
    [op |-> "", item_key |-> "", db |-> <<>>, rows |-> <<>>,
     res |-> [kind |-> "None", val |-> None, err |-> "", item_key |-> ""]]

\* The state before the call, whatever the inputs.
Idle ==
    /\ store = NoStore
    /\ lookup = NoLookup
    /\ keys = <<>>
    /\ pc = "idle"
    /\ bound = <<>>
    /\ fetch_calls = 0
    /\ response = NoResponse
    /\ result = NoResult

Init ==
    /\ self \in SqlDynamicQuery
    /\ data \in SqlDynamicQueryData
    /\ Idle

\* check_query_params called by itself.
CheckQueryParams ==
    /\ pc = "idle"
    /\ \E o \in IterationOrders(DOMAIN data) :
          /\ keys' = Visited(self, data, o)
          /\ result' = check_query_params(self, data, o)
    /\ pc' = "checked"
    /\ UNCHANGED <<self, data, bound, fetch_calls, response, store, lookup>>

\* execute, first stage: check_query_params and the ? operator.
ExecuteCheck ==
    /\ pc = "idle"
    /\ \E o \in IterationOrders(DOMAIN data) :
          LET r == check_query_params(self, data, o)
          IN  /\ keys' = Visited(self, data, o)
              /\ IF r.kind = "Ok"
                 THEN pc' = "bind" /\ UNCHANGED result
                 ELSE pc' = "done" /\ result' = PropagateCheckError(r)
    /\ UNCHANGED <<self, data, bound, fetch_calls, response, store, lookup>>

\* execute, second stage: one turn of the loop over self.params.
ExecuteBind ==
    /\ pc = "bind"
    /\ IsSome(self.params)
    /\ Len(bound) < Len(Unwrap(self.params))
    /\ LET b == BindParam(ParamAt(Unwrap(self.params), Len(bound) + 1), data)
       IN  IF b.res.kind = "Ok"
           THEN bound' = Append(bound, b.entry) /\ UNCHANGED <<pc, result>>
           ELSE pc' = "done" /\ result' = b.res /\ UNCHANGED bound
    /\ UNCHANGED <<self, data, keys, fetch_calls, response, store, lookup>>

\* execute, third stage: fetch_all and the result made of its outcome.
ExecuteFetch ==
    /\ pc = "bind"
    /\ IsSome(self.params) => Len(bound) = Len(Unwrap(self.params))
    /\ \E r \in FetchResponses :
          /\ response' = r
          /\ result' = FetchResult(self.item_key, r)
          /\ pc' = AfterFetch(r)
    /\ fetch_calls' = fetch_calls + 1
    /\ UNCHANGED <<self, data, keys, bound, store, lookup>>

Next == CheckQueryParams \/ ExecuteCheck \/ ExecuteBind \/ ExecuteFetch

Spec == Init /\ [][Next]_vars

\* The calls that supply one value to one parameter, over the lexicon, and
\* the calls that leave the value to the default of the parameter.
InitConv ==
    /\ \/ self \in ConvQueries /\ data \in ConvData
       \/ self \in ConvDefaultQueries /\ data = NoData
    /\ Idle

SpecConv == InitConv /\ [][Next]_vars

\* Before a lookup no SqlDynamicQuery exists.
NoQuery == [item_key |-> "", params |-> None]

InitManager ==
    /\ store \in Stores
    /\ lookup = NoLookup
    /\ self = NoQuery
    /\ data \in ManagerData
    /\ keys = <<>>
    /\ pc = "start"
    /\ bound = <<>>
    /\ fetch_calls = 0
    /\ response = NoResponse
    /\ result = NoResult

GetSqlQueryByItemKey ==
    /\ pc = "start"
    /\ \E item_key \in StoreKeys, db_ok \in BOOLEAN :
          lookup' = [op |-> "get_sql_query_by_item_key", item_key |-> item_key,
                     db |-> <<db_ok>>, rows |-> <<>>,
                     res |-> get_sql_query_by_item_key(store, item_key, db_ok)]
    /\ pc' = "looked"
    /\ UNCHANGED <<self, data, keys, bound, fetch_calls, response, result, store>>

GetSqlQueryParamsByItemKey ==
    /\ pc = "start"
    /\ \E item_key \in StoreKeys, db_ok \in BOOLEAN :
          \E rows \in FetchedRows(store, item_key) :
             lookup' = [op |-> "get_sql_query_params_by_item_key",
                        item_key |-> item_key, db |-> <<db_ok>>,
                        rows |-> IF db_ok THEN rows ELSE <<>>,
                        res |-> get_sql_query_params_by_item_key(item_key, rows, db_ok)]
    /\ pc' = "looked"
    /\ UNCHANGED <<self, data, keys, bound, fetch_calls, response, result, store>>

\* get_sql_dynamic_query; the SqlDynamicQuery it returns is the one the
\* caller then checks and executes.
GetSqlDynamicQuery ==
    /\ pc = "start"
    /\ \E item_key \in StoreKeys, query_ok \in BOOLEAN, params_ok \in BOOLEAN :
          \E rows \in FetchedRows(store, item_key) :
             LET r == get_sql_dynamic_query(store, item_key, query_ok, rows, params_ok)
                 second == query_ok /\ IsSome(fetch_optional(store, item_key))
             IN  /\ lookup' = [op |-> "get_sql_dynamic_query", item_key |-> item_key,
                               db |-> IF second THEN <<query_ok, params_ok>>
                                      ELSE <<query_ok>>,
                               rows |-> IF second /\ params_ok THEN rows ELSE <<>>,
                               res |-> r]
                 /\ IF r.kind = "Ok" /\ IsSome(r.val)
                    THEN self' = Unwrap(r.val) /\ pc' = "idle"
                    ELSE UNCHANGED self /\ pc' = "looked"
    /\ UNCHANGED <<data, keys, bound, fetch_calls, response, result, store>>

NextManager ==
    \/ GetSqlQueryByItemKey
    \/ GetSqlQueryParamsByItemKey
    \/ GetSqlDynamicQuery
    \/ CheckQueryParams
    \/ ExecuteCheck
    \/ ExecuteBind
    \/ ExecuteFetch

SpecManager == InitManager /\ [][NextManager]_vars


(***************************************************************************)
(* Vocabulary of the properties.                                           *)
(***************************************************************************)
\* The declared parameters, the empty list when self.params is None.
Declared == IF IsSome(self.params) THEN Unwrap(self.params) ELSE <<>>

DeclaredNames == {Declared[i].param_name : i \in 1..Len(Declared)}

\* The declared parameter named n.
SpecOf(n) == Declared[FindParam(Declared, n)]

SomeRequiredIsMissing ==
    \E i \in 1..Len(Declared) :
        Declared[i].is_required = 1 /\ Declared[i].param_name \notin DOMAIN data

IsMissingRequired(r) ==
    r.kind = "ErrorCheckParams" /\ r.msg = "Required parameter is missing"

IsUnexpectedParameter(r, k) ==
    r.kind = "ErrorCheckParams" /\ r.msg = "Unexpected parameter" /\ r.param = k

IsTypeMismatch(r) == r.kind = "ErrorCheckParams" /\ r.msg = "validation failed"

RecognizedTag(tag) == SqlQueryParamType_from(tag) \in SqlQueryParamType

\* The supplied value of the declared name n conforms to the type of n.
Conforms(n) == validate_param_type(SpecOf(n).param_type, data[n]).kind = "Ok"

\* The supplied name k was visited by the loop over the supplied entries.
Reached(k) == \E i \in 1..Len(keys) : keys[i] = k

\* The position of the visited name k in the iteration order.
PositionOf(k) == CHOOSE i \in 1..Len(keys) : keys[i] = k

\* self with the default value of its i-th parameter replaced by dv.
WithDefault(i, dv) ==
    [self EXCEPT !.params = Some([Declared EXCEPT ![i].default_value = dv])]

(***************************************************************************)
(* C1.  A definition that declares no parameters (params None, or an      *)
(* empty list) accepts a supplied set if and only if it is empty, and a   *)
(* non-empty one is refused with an ErrorCheckParams error.               *)
(***************************************************************************)
C1_NoParametersAcceptsOnlyEmpty ==
    (pc = "checked" /\ Declared = <<>>) =>
        /\ result.kind = "Ok" <=> DOMAIN data = {}
        /\ DOMAIN data # {} => result.kind = "ErrorCheckParams"

C1_Witness ==
    /\ pc = "checked"
    /\ ~IsSome(self.params)
    /\ DOMAIN data # {}
    /\ result.kind = "ErrorCheckParams"

(***************************************************************************)
(* C2.  With declared parameters, check_query_params returns the          *)
(* missing-required error if and only if some parameter with is_required  *)
(* set is not among the supplied names; the error names such a parameter, *)
(* and no choice of default values changes whether it is returned.        *)
(***************************************************************************)
C2_MissingRequiredIff ==
    (pc = "checked" /\ IsSome(self.params)) =>
        /\ IsMissingRequired(result) <=> SomeRequiredIsMissing
        /\ IsMissingRequired(result) =>
              \E i \in 1..Len(Declared) :
                  /\ Declared[i].is_required = 1
                  /\ Declared[i].param_name \notin DOMAIN data
                  /\ Declared[i].param_name = result.param
        /\ \A i \in 1..Len(Declared) : \A dv \in {None} \cup {Some(v) : v \in Values} :
              IsMissingRequired(check_query_params(WithDefault(i, dv), data, keys))
                  <=> IsMissingRequired(result)

C2_Witness ==
    /\ pc = "checked"
    /\ \E i \in 1..Len(Declared) :
          /\ Declared[i].is_required = 1
          /\ IsSome(Declared[i].default_value)
          /\ Declared[i].param_name \notin DOMAIN data
          /\ IsMissingRequired(result)
          /\ result.param = Declared[i].param_name

(***************************************************************************)
(* C3, as claimed.  Whenever a supplied key matches no declared name,     *)
(* check_query_params returns the unexpected-parameter error naming that  *)
(* key.  Stated of the definitions that declare parameters (one that      *)
(* declares none answers with the expects-no-parameters error of C1).     *)
(***************************************************************************)
C3_UnknownKeyAlwaysReported ==
    (pc = "checked" /\ Declared # <<>>) =>
        \A k \in DOMAIN data \ DeclaredNames : IsUnexpectedParameter(result, k)

(***************************************************************************)
(* C3, amended.  Whenever a supplied key matches no declared name,        *)
(* check_query_params does not return Ok, and it returns the              *)
(* unexpected-parameter error naming that key exactly when self.params is *)
(* a list, no required parameter is missing, and the iteration of the     *)
(* supplied map comes to that key: every supplied entry iterated before   *)
(* it is declared with a recognized type tag and conforms to it.          *)
(***************************************************************************)
C3_UnknownKeyReportedWhenReached ==
    pc = "checked" =>
        \A k \in DOMAIN data \ DeclaredNames :
            /\ result.kind # "Ok"
            /\ IsUnexpectedParameter(result, k) <=>
                  /\ IsSome(self.params)
                  /\ ~SomeRequiredIsMissing
                  /\ Reached(k)
                  /\ \A i \in 1..(PositionOf(k) - 1) :
                        keys[i] \in DeclaredNames /\ Conforms(keys[i])

C3_Witness ==
    /\ pc = "checked"
    /\ \E k \in DOMAIN data \ DeclaredNames :
          /\ IsUnexpectedParameter(result, k)
          /\ PositionOf(k) = 2
          /\ \E i \in 1..Len(Declared) : Declared[i].is_required = 1

(***************************************************************************)
(* C4.  With declared parameters whose tags are all recognized,           *)
(* check_query_params returns Ok exactly when every required parameter is *)
(* supplied, every supplied name is declared and every supplied value     *)
(* conforms to the type of its parameter, required or not; and the        *)
(* verdict is the same for every iteration order of the supplied map.     *)
(***************************************************************************)
C4_OkIffAllChecksPass ==
    (IsSome(self.params) /\ \A i \in 1..Len(Declared) : RecognizedTag(Declared[i].param_type)) =>
        /\ pc = "checked" =>
              (result.kind = "Ok" <=>
                  /\ ~SomeRequiredIsMissing
                  /\ DOMAIN data \subseteq DeclaredNames
                  /\ \A n \in DOMAIN data : Conforms(n))
        /\ pc = "checked" => result.kind \in {"Ok", "ErrorCheckParams"}
        /\ pc = "idle" =>
              \A o1, o2 \in IterationOrders(DOMAIN data) :
                  check_query_params(self, data, o1).kind
                      = check_query_params(self, data, o2).kind

C4_Witness ==
    /\ pc = "checked"
    /\ result.kind = "Ok"
    /\ Cardinality(DOMAIN data) = 2
    /\ \E n \in DOMAIN data : SpecOf(n).is_required = 0
    /\ \E n \in DOMAIN data : SpecOf(n).is_required = 1


(***************************************************************************)
(* C5.  A supplied value that validate_param_type accepts for a type is   *)
(* converted by execute for that type: no call passes validation and then *)
(* returns an invalid-value error for a supplied parameter.               *)
(***************************************************************************)
InvalidValueMessages ==
    {"Invalid integer value", "Invalid float value", "Invalid boolean value",
     "Invalid datetime format, expected YYYY-MM-DD",
     "Invalid datetime format, expected YYYY-MM-DD HH:MM:SS"}

IsInvalidValue(r) == r.kind = "ErrorExecutionQuery" /\ r.msg \in InvalidValueMessages

C5_ValidatedValueBinds ==
    ~(pc = "done" /\ IsInvalidValue(result) /\ result.param \in DOMAIN data)


(***************************************************************************)
(* C6.  Whatever the order of the list self.params, execute binds the     *)
(* values in ascending param_order: of two bound values, the earlier one  *)
(* belongs to the parameter of the smaller (or equal) param_order.        *)
(***************************************************************************)
C6_BoundInAscendingParamOrder ==
    \A i, j \in 1..Len(bound) :
        i < j => SpecOf(bound[i].param_name).param_order
                    <= SpecOf(bound[j].param_name).param_order

(***************************************************************************)
(* C7.  The string execute converts and binds for a declared parameter is *)
(* the supplied value when the name is supplied, whatever the default;    *)
(* otherwise the default value; and with neither, execute returns the     *)
(* missing-and-no-default error naming the parameter and fetch_all is not *)
(* called.                                                                 *)
(***************************************************************************)
IsMissingNoDefault(r) ==
    r.kind = "ErrorExecutionQuery" /\ r.msg = "is missing and has no default value"

Unresolved(p) == p.param_name \notin DOMAIN data /\ ~IsSome(p.default_value)

C7_BoundValueIsSuppliedElseDefault ==
    /\ \A k \in 1..Len(bound) :
          LET p == Declared[k]
          IN  /\ bound[k].param_name = p.param_name
              /\ IF p.param_name \in DOMAIN data
                 THEN bound[k].raw = data[p.param_name]
                 ELSE IsSome(p.default_value) /\ bound[k].raw = Unwrap(p.default_value)
              /\ bound[k].val =
                    ConvertValue(SqlQueryParamType_from(p.param_type), bound[k].raw).val
    /\ IsMissingNoDefault(result) =>
          /\ fetch_calls = 0
          /\ Len(bound) < Len(Declared)
          /\ Unresolved(Declared[Len(bound) + 1])
          /\ result.param = Declared[Len(bound) + 1].param_name
    /\ (/\ pc = "done"
        /\ check_query_params(self, data, keys).kind = "Ok"
        /\ Len(bound) < Len(Declared)
        /\ Unresolved(Declared[Len(bound) + 1])) =>
          /\ IsMissingNoDefault(result)
          /\ result.param = Declared[Len(bound) + 1].param_name

C7_Witness ==
    /\ pc = "done"
    /\ fetch_calls = 1
    /\ Len(bound) = 2
    /\ \E k \in 1..2 :
          /\ Declared[k].param_name \in DOMAIN data
          /\ IsSome(Declared[k].default_value)
          /\ Unwrap(Declared[k].default_value) # data[Declared[k].param_name]
    /\ \E k \in 1..2 : Declared[k].param_name \notin DOMAIN data

(***************************************************************************)
(* C8.  check_query_params never looks at a default value: it returns     *)
(* what it returns for the same parameters without defaults.  execute     *)
(* does: when an optional parameter is not supplied and its default does  *)
(* not convert to the type of its (recognized) tag, fetch_all is not      *)
(* called and the call fails, and when the loop of execute comes to that  *)
(* parameter it returns the invalid-value error naming it.                *)
(***************************************************************************)
WithoutDefaults ==
    [self EXCEPT !.params =
        IF IsSome(self.params)
        THEN Some([i \in 1..Len(Declared) |-> [Declared[i] EXCEPT !.default_value = None]])
        ELSE None]

BadDefault(p) ==
    /\ p.is_required # 1
    /\ p.param_name \notin DOMAIN data
    /\ IsSome(p.default_value)
    /\ RecognizedTag(p.param_type)
    /\ ~ConvertValue(SqlQueryParamType_from(p.param_type), Unwrap(p.default_value)).ok

C8_DefaultCheckedAtBindTimeOnly ==
    /\ pc = "checked" => result = check_query_params(WithoutDefaults, data, keys)
    /\ \A i \in 1..Len(Declared) :
          BadDefault(Declared[i]) =>
              /\ fetch_calls = 0
              /\ pc = "done" => result.kind \in {"ErrorCheckParams", "ErrorExecutionQuery", "Panic"}
              /\ (/\ pc = "done"
                  /\ check_query_params(self, data, keys).kind = "Ok"
                  /\ Len(bound) = i - 1) =>
                    /\ IsInvalidValue(result)
                    /\ result.param = Declared[i].param_name

C8_Witness ==
    /\ pc = "done"
    /\ Len(bound) = 1
    /\ Len(Declared) = 2
    /\ BadDefault(Declared[2])
    /\ IsInvalidValue(result)
    /\ result.param = Declared[2].param_name

(***************************************************************************)
(* C9.  In execute the validation comes first: when check_query_params    *)
(* fails, execute returns that very error, nothing is bound and fetch_all *)
(* is not called; a value is bound only after the validation succeeded,   *)
(* and fetch_all is called only after it succeeded and every declared     *)
(* parameter was resolved and converted.                                  *)
(***************************************************************************)
C9_ValidationBeforeBindingAndFetch ==
    LET checked == check_query_params(self, data, keys)
    IN
    /\ (pc \in {"bind", "done"} /\ checked.kind = "ErrorCheckParams") =>
          /\ pc = "done"
          /\ result = checked
          /\ bound = <<>>
          /\ fetch_calls = 0
    /\ bound # <<>> => checked.kind = "Ok"
    /\ fetch_calls > 0 =>
          /\ checked.kind = "Ok"
          /\ Len(bound) = Len(Declared)
          /\ \A k \in 1..Len(Declared) :
                /\ IsSome(ResolveValue(Declared[k], data))
                /\ ConvertValue(SqlQueryParamType_from(Declared[k].param_type),
                                Unwrap(ResolveValue(Declared[k], data))).ok
                /\ bound[k].param_name = Declared[k].param_name

C9_Witness ==
    /\ pc = "done"
    /\ result.kind = "ErrorCheckParams"
    /\ Len(Declared) = 2
    /\ \A k \in 1..2 : IsSome(ResolveValue(Declared[k], data))
    /\ bound = <<>>
    /\ fetch_calls = 0

(***************************************************************************)
(* C10.  execute calls fetch_all at most once.  When that call fails,     *)
(* execute returns an ErrorExecutionQuery carrying the item_key of the    *)
(* query and the message of the failure; when it succeeds, execute        *)
(* returns the rows fetch_all produced, and execute returns rows in no    *)
(* other way.                                                              *)
(***************************************************************************)
C10_SingleFetchAttempt ==
    /\ fetch_calls <= 1
    /\ fetch_calls = 1 =>
          /\ pc = "done"
          /\ IF response.ok
             THEN result.kind = "Ok" /\ result.detail = response.rows
             ELSE result = ErrorExecutionQuery("Error executing query", "", self.item_key,
                                               <<response.error>>)
    /\ (pc = "done" /\ result.kind = "Ok") => fetch_calls = 1 /\ response.ok

C10_Witness ==
    /\ pc = "done"
    /\ fetch_calls = 1
    /\ ~response.ok
    /\ result.kind = "ErrorExecutionQuery"
    /\ result.item_key = self.item_key
    /\ result.detail = <<response.error>>

(***************************************************************************)
(* The vocabulary of the properties of the lookups.                        *)
(***************************************************************************)
\* A row of the query table has the key k.
Registered(k) == \E i \in 1..Len(store.queries) : store.queries[i].item_key = k

\* The rows of the parameter table that have the key k.
ParamRowsFor(k) == SelectSeq(store.params, LAMBDA qp : qp.item_key = k)

\* The database answered the first fetch of the last lookup.
Answered == lookup.db # <<>> /\ lookup.db[1]

C12_NoParameterRowsIsOkNone ==
    /\ lookup.op = "get_sql_query_params_by_item_key" =>
          /\ lookup.res # LookupOk(Some(<<>>))
          /\ (ParamRowsFor(lookup.item_key) = <<>> /\ Answered) =>
                lookup.res = LookupOk(None)
    /\ (lookup.op = "get_sql_dynamic_query" /\ lookup.res.kind = "Ok") =>
          /\ IsSome(lookup.res.val)
          /\ Unwrap(lookup.res.val).params # Some(<<>>)
          /\ ParamRowsFor(lookup.item_key) = <<>> =>
                Unwrap(lookup.res.val).params = None

C12_Witness ==
    /\ lookup.op = "get_sql_query_params_by_item_key"
    /\ store.params # <<>>
    /\ ~Registered(lookup.item_key)
    /\ ParamRowsFor(lookup.item_key) = <<>>
    /\ Answered
    /\ lookup.res = LookupOk(None)

(***************************************************************************)
(* C13: a type tag is never silently coerced.  SqlQueryParamType::from     *)
(* maps each recognized tag to the one variant the table below gives it    *)
(* and panics on every other tag; every value bound belongs to a           *)
(* parameter with a recognized tag and has the type of that tag's          *)
(* variant; a supplied value whose parameter has an unrecognized tag is    *)
(* never validated: the call panics when it comes to it.                   *)
(***************************************************************************)
TagTable ==
    {<<"VARCHAR", "String">>, <<"Varchar", "String">>,
     <<"BIGINT", "I32">>, <<"INTEGER", "I32">>, <<"Integer", "I32">>,
     <<"DOUBLE PRECISION", "F64">>, <<"DOUBLE_PRECISION", "F64">>,
     <<"BOOLEAN", "Bool">>, <<"Boolean", "Bool">>,
     <<"DATE", "NaiveDate">>, <<"Date", "NaiveDate">>,
     <<"DATETIME", "NaiveDateTime">>, <<"DateTime", "NaiveDateTime">>}

InTagTable(tag) == \E e \in TagTable : e[1] = tag

OtherTags == {"TEXT", "varchar", "bigint", "Int", "DATE ", "TIMESTAMP", ""}

C13_UnknownTagNeverCoerced ==
    /\ \A e \in TagTable : SqlQueryParamType_from(e[1]) = e[2]
    /\ \A tag \in OtherTags : SqlQueryParamType_from(tag) = "panic"
    /\ \A i \in 1..Len(bound) :
          \E e \in TagTable :
             e[1] = Declared[i].param_type /\ bound[i].val[1] = e[2]
    /\ \A i \in 1..Len(keys) :
          (keys[i] \in DeclaredNames /\ ~InTagTable(SpecOf(keys[i]).param_type)) =>
             i = Len(keys) /\ result.kind = "Panic"
    /\ (pc = "done" /\ fetch_calls = 1) =>
          \A i \in 1..Len(Declared) : InTagTable(Declared[i].param_type)

C13_Witness ==
    /\ pc = "done"
    /\ result.kind = "Panic"
    /\ Len(bound) = 1
    /\ Len(Declared) = 2
    /\ ~InTagTable(Declared[2].param_type)
    /\ IsSome(Declared[2].default_value)
    /\ Declared[2].param_name \notin DOMAIN data

(***************************************************************************)
(* The vocabulary of the properties of one value of one type: the only     *)
(* parameter of the query, the value it takes (supplied, else default).    *)
(***************************************************************************)
TheParam == Declared[1]

OneParamOfType(variant) ==
    /\ Len(Declared) = 1
    /\ \E e \in TagTable : e[1] = TheParam.param_type /\ e[2] = variant

IsSupplied == TheParam.param_name \in DOMAIN data

TheValue ==
    IF IsSupplied THEN data[TheParam.param_name] ELSE Unwrap(TheParam.default_value)

HasValue == IsSupplied \/ IsSome(TheParam.default_value)

\* execute returned the invalid-value error msg for the parameter.
RejectedAtBind(msg) ==
    /\ result.kind = "ErrorExecutionQuery"
    /\ result.msg = msg
    /\ result.param = TheParam.param_name

(***************************************************************************)
(* C14: for a Bool parameter a value conforms if and only if its           *)
(* lower-cased form is one of true, false, 1, 0, yes, no, on, off; the     *)
(* forms true, 1, yes, on are bound as boolean true and false, 0, no, off  *)
(* as boolean false; every other string is rejected by validation when     *)
(* supplied and by binding when it is the default, and is never bound.     *)
(***************************************************************************)
TrueForms == {<<"t", "r", "u", "e">>, <<"1">>, <<"y", "e", "s">>, <<"o", "n">>}

FalseForms == {<<"f", "a", "l", "s", "e">>, <<"0">>, <<"n", "o">>, <<"o", "f", "f">>}

C14_BoolConformsAndBinds ==
    (OneParamOfType("Bool") /\ HasValue) =>
        LET lower == to_lowercase(TheValue)
            conforms == lower \in TrueForms \cup FalseForms
        IN  /\ (pc = "checked" /\ IsSupplied) =>
                  /\ result.kind = "Ok" <=> conforms
                  /\ ~conforms => IsTypeMismatch(result)
            /\ (pc = "done" /\ ~conforms) =>
                  /\ bound = <<>>
                  /\ fetch_calls = 0
                  /\ IF IsSupplied THEN IsTypeMismatch(result)
                     ELSE RejectedAtBind("Invalid boolean value")
            /\ (pc = "done" /\ conforms) => Len(bound) = 1 /\ fetch_calls = 1
            /\ bound # <<>> =>
                  /\ conforms
                  /\ bound[1].val = <<"Bool", lower \in TrueForms>>

C14_Witness ==
    /\ OneParamOfType("Bool")
    /\ IsSupplied
    /\ data["id"] = <<"O", "f", "f">>
    /\ pc = "done"
    /\ fetch_calls = 1
    /\ bound[1].val = <<"Bool", FALSE>>

(***************************************************************************)
(* C15: required-presence is checked before unexpected-key rejection.      *)
(* When the supplied set omits a required parameter and contains a key     *)
(* that matches no declared parameter, check_query_params (and execute,    *)
(* which returns its error) reports the missing-required error for the     *)
(* first omitted required parameter in declared order, not the             *)
(* unexpected-parameter error.                                             *)
(***************************************************************************)
OmittedRequired ==
    {i \in 1..Len(Declared) :
        Declared[i].is_required = 1 /\ Declared[i].param_name \notin DOMAIN data}

UndeclaredKeys == {k \in DOMAIN data : k \notin DeclaredNames}

C15_MissingRequiredBeforeUnexpected ==
    (pc \in {"checked", "done"} /\ OmittedRequired # {} /\ UndeclaredKeys # {}) =>
        /\ IsMissingRequired(result)
        /\ \E i \in OmittedRequired :
              /\ \A j \in OmittedRequired : i <= j
              /\ result.param = Declared[i].param_name
        /\ \A k \in UndeclaredKeys : ~IsUnexpectedParameter(result, k)

C15_Witness ==
    /\ pc = "checked"
    /\ OmittedRequired = {1, 2}
    /\ DOMAIN data = {"item_date_ende"}
    /\ IsMissingRequired(result)
    /\ result.param = Declared[1].param_name

(***************************************************************************)
(* C16: for an Int32 parameter a value conforms if and only if it is a     *)
(* base-10 integer (an optional sign and one or more digits) within        *)
(* [-2147483648, 2147483647]; a value outside that range is rejected by    *)
(* check_query_params with a type-mismatch error and is never bound; the   *)
(* value bound is the number the string denotes, neither wrapped nor       *)
(* truncated.                                                              *)
(***************************************************************************)
Unsigned(v) == IF v # <<>> /\ v[1] \in {"+", "-"} THEN Tail(v) ELSE v

IsDecimalInteger(v) ==
    /\ Unsigned(v) # <<>>
    /\ \A i \in 1..Len(Unsigned(v)) : IsAsciiDigit(Unsigned(v)[i])

MaxMagnitude == <<"2", "1", "4", "7", "4", "8", "3", "6", "4", "7">>
MinMagnitude == <<"2", "1", "4", "7", "4", "8", "3", "6", "4", "8">>

\* Of two digit strings of one length, d denotes at most what limit does.
NotAbove(d, limit) ==
    \/ d = limit
    \/ \E i \in 1..Len(d) :
          /\ \A j \in 1..(i - 1) : d[j] = limit[j]
          /\ DigitVal(d[i]) < DigitVal(limit[i])

\* The magnitude of the decimal integer v, without leading zeros.
Magnitude(v) == StripLeadingZeros(Unsigned(v))

IsNegative(v) == v[1] = "-" /\ Magnitude(v) # <<>>

WithinI32(v) ==
    \/ Len(Magnitude(v)) < Len(MaxMagnitude)
    \/ /\ Len(Magnitude(v)) = Len(MaxMagnitude)
       /\ NotAbove(Magnitude(v), IF v[1] = "-" THEN MinMagnitude ELSE MaxMagnitude)

RECURSIVE NatDigits(_)
NatDigits(n) ==
    IF n < 10 THEN <<AsciiDigits[n + 1]>>
    ELSE NatDigits(n \div 10) \o <<AsciiDigits[(n % 10) + 1]>>

\* The digits of the magnitude of the 32-bit integer n.
MagnitudeOf(n) ==
    IF n = I32_MIN THEN MinMagnitude
    ELSE IF n < 0 THEN NatDigits(-n)
    ELSE IF n = 0 THEN <<>>
    ELSE NatDigits(n)

C16_Int32ConformsWithinRange ==
    (OneParamOfType("I32") /\ HasValue) =>
        LET conforms == IsDecimalInteger(TheValue) /\ WithinI32(TheValue)
        IN  /\ (pc = "checked" /\ IsSupplied) =>
                  /\ result.kind = "Ok" <=> conforms
                  /\ ~conforms =>
                        IsTypeMismatch(result) /\ result.param = TheParam.param_name
            /\ (pc = "done" /\ ~conforms) =>
                  /\ bound = <<>>
                  /\ fetch_calls = 0
                  /\ IF IsSupplied THEN IsTypeMismatch(result)
                     ELSE RejectedAtBind("Invalid integer value")
            /\ (pc = "done" /\ conforms) => Len(bound) = 1 /\ fetch_calls = 1
            /\ bound # <<>> =>
                  /\ conforms
                  /\ bound[1].val[1] = "I32"
                  /\ MagnitudeOf(bound[1].val[2]) = Magnitude(TheValue)
                  /\ bound[1].val[2] < 0 <=> IsNegative(TheValue)

C16_Witness ==
    /\ OneParamOfType("I32")
    /\ IsSupplied
    /\ data["id"] = MinMagnitude
    /\ pc = "done"
    /\ IsTypeMismatch(result)
    /\ bound = <<>>
    /\ fetch_calls = 0

(***************************************************************************)
(* C17: for every non-empty list of parameter rows the store returns,      *)
(* get_sql_query_params_by_item_key and get_sql_dynamic_query yield a      *)
(* permutation of exactly those rows in ascending param_order, rows of     *)
(* equal param_order keeping the order in which the store returned them;   *)
(* so for rows of pairwise distinct param_order every reordering of the    *)
(* rows yields the same parameter sequence, and execute binds one value    *)
(* per parameter of that sequence, in that order.                          *)
(***************************************************************************)
\* The parameter list the last lookup returned.
Loaded ==
    IF lookup.op = "get_sql_dynamic_query"
    THEN Unwrap(Unwrap(lookup.res.val).params)
    ELSE Unwrap(lookup.res.val)

\* sorted is rows rearranged by the permutation f.
Rearranges(f, sorted, rows) ==
    /\ Len(sorted) = Len(rows)
    /\ \A i \in 1..Len(rows) : sorted[i] = rows[f[i]]

Reorderings(rows) ==
    {[i \in 1..Len(rows) |-> rows[f[i]]] : f \in IterationOrders(1..Len(rows))}

DistinctOrders(rows) ==
    \A i, j \in 1..Len(rows) : rows[i].param_order = rows[j].param_order => i = j

C17_LoadedSortedStably ==
    (/\ lookup.op \in {"get_sql_query_params_by_item_key", "get_sql_dynamic_query"}
     /\ lookup.rows # <<>>) =>
        /\ lookup.res.kind = "Ok"
        /\ \E f \in IterationOrders(1..Len(lookup.rows)) :
              /\ Rearranges(f, Loaded, lookup.rows)
              /\ \A i, j \in 1..Len(Loaded) :
                    i < j =>
                       \/ Loaded[i].param_order < Loaded[j].param_order
                       \/ /\ Loaded[i].param_order = Loaded[j].param_order
                          /\ f[i] < f[j]
        /\ DistinctOrders(lookup.rows) =>
              \A other \in Reorderings(lookup.rows) :
                 get_sql_query_params_by_item_key(lookup.item_key, other, TRUE)
                    = LookupOk(Some(Loaded))
        /\ lookup.op = "get_sql_dynamic_query" =>
              /\ self.params = Some(Loaded)
              /\ Len(bound) <= Len(Loaded)
              /\ \A i \in 1..Len(bound) :
                    /\ bound[i] = BindParam(Loaded[i], data).entry
                    /\ \A j \in 1..(i - 1) :
                          Loaded[j].param_order <= Loaded[i].param_order

C17_Witness ==
    /\ lookup.op = "get_sql_dynamic_query"
    /\ Len(lookup.rows) = 2
    /\ lookup.rows[1].param_order > lookup.rows[2].param_order
    /\ lookup.rows[1].param_name # lookup.rows[2].param_name
    /\ pc = "done"
    /\ fetch_calls = 1
    /\ Len(bound) = 2
    /\ bound[1].param_name = lookup.rows[2].param_name
    /\ bound[2].param_name = lookup.rows[1].param_name

(***************************************************************************)
(* C18: unknown-key rejection precedes type checking.  When every          *)
(* required parameter is supplied, one supplied key matches no declared    *)
(* parameter and another supplied key matches a parameter of a recognized  *)
(* type whose value does not conform, check_query_params fails with the    *)
(* unexpected-parameter error for the unknown key, not with the            *)
(* type-mismatch error, whatever the iteration order of the supplied map.  *)
(***************************************************************************)
NonConformingKeys ==
    {n \in DOMAIN data :
        /\ n \in DeclaredNames
        /\ RecognizedTag(SpecOf(n).param_type)
        /\ ~Conforms(n)}

C18_UnexpectedBeforeTypeMismatch ==
    (/\ pc = "checked"
     /\ IsSome(self.params)
     /\ ~SomeRequiredIsMissing
     /\ UndeclaredKeys # {}
     /\ NonConformingKeys # {}) =>
        /\ ~IsTypeMismatch(result)
        /\ \E k \in UndeclaredKeys : IsUnexpectedParameter(result, k)

(***************************************************************************)
(* C19: in every call of execute, the bind-time error "is missing and has  *)
(* no default value" is raised only for a parameter that is not required,  *)
(* is not supplied and has no default value, never for a required one;     *)
(* and when execute calls fetch_all, exactly one value has been bound per  *)
(* declared parameter, in list order.                                      *)
(***************************************************************************)
C19_MissingAtBindOnlyForOptional ==
    /\ (pc = "done" /\ IsMissingNoDefault(result)) =>
          /\ fetch_calls = 0
          /\ Len(bound) < Len(Declared)
          /\ LET param == Declared[Len(bound) + 1]
             IN  /\ result.param = param.param_name
                 /\ param.is_required # 1
                 /\ param.param_name \notin DOMAIN data
                 /\ ~IsSome(param.default_value)
    /\ fetch_calls > 0 =>
          /\ Len(bound) = Len(Declared)
          /\ \A i \in 1..Len(Declared) :
                /\ bound[i].param_name = Declared[i].param_name
                /\ bound[i].raw = Unwrap(ResolveValue(Declared[i], data))

C19_Witness ==
    /\ pc = "done"
    /\ IsMissingNoDefault(result)
    /\ Len(Declared) = 2
    /\ Len(bound) = 1
    /\ Declared[1].is_required = 1
    /\ Declared[2].is_required = 0
    /\ result.param = Declared[2].param_name

====
